---- MODULE Spec2Model ----
(***************************************************************************)
(* Model of mongoc-stream-tls-openssl-bio.c: the BIO method table that     *)
(* lets the TLS engine read and write through a mongoc stream.             *)
(*                                                                         *)
(* State: the BIO handles (init, ptr, flags), the TLS stream contexts      *)
(* (the bio they reference, base_stream, timeout_msec), the ambient errno, *)
(* and a record of the last callback made (its return value and the        *)
(* transport calls it issued).                                             *)
(***************************************************************************)
EXTENDS Integers, Sequences, FiniteSets

\* ---- bounds ------------------------------------------------------------
NumContexts == 2
MaxStr == 1

\* ---- program constants -------------------------------------------------
NULL == 0
BIO_CTRL_FLUSH == 11

\* The callbacks touch the one BIO they are given and the context it points
\* to: the model follows one handle across the contexts it is bound to.
Handles == {1}
Contexts == 1..NumContexts

\* The retry bits of BIO.flags that the BIO_*_retry_* macros touch.
BIO_FLAGS_READ == "READ"
BIO_FLAGS_WRITE == "WRITE"
BIO_FLAGS_SHOULD_RETRY == "SHOULD_RETRY"
RetryBits == {BIO_FLAGS_READ, BIO_FLAGS_WRITE, BIO_FLAGS_SHOULD_RETRY}
NoFlags == {}
RetryRead == {BIO_FLAGS_READ, BIO_FLAGS_SHOULD_RETRY}
RetryWrite == {BIO_FLAGS_WRITE, BIO_FLAGS_SHOULD_RETRY}

BIO_clear_retry_flags(flags) == flags \ RetryBits
BIO_set_retry_read(flags) == flags \cup RetryRead
BIO_set_retry_write(flags) == flags \cup RetryWrite

\* The ambient errno holds "0" (cleared), "EAGAIN" or "EIO".
ErrnoClear == "0"
MONGOC_ERRNO_IS_AGAIN(e) == e \in {"EAGAIN"}

\* What a transport call does to errno: leaves it alone or stores a code.
TransportErrs == {"untouched", "EAGAIN", "EIO"}
ErrnoAfter(before, e) == IF e = "untouched" THEN before ELSE e

\* Caller memory: the NUL-terminated byte strings <<0>>, <<1, 0>>, <<1, 2, 0>>,
\* ... of at most MaxStr characters; a buffer holds one byte more than its
\* string is long.
Strings == {[i \in 1..(n + 1) |-> IF i <= n THEN i ELSE 0] : n \in 0..MaxStr}

\* Byte counts a transport call may return (negative on error).  They lie in
\* the range of int, where the callbacks' (int) cast keeps the value.
Counts == (-1)..MaxStr
\* Lengths a caller may pass to write with buffer buf: an int up to the size
\* of the buffer (nothing rejects a negative one).
Lens(buf) == (-1)..Len(buf)
\* Lengths given to read and gets (non-negative by their contract).
ReadLens(buf) == 0..Len(buf)
\* Timeouts the owning stream may configure, in milliseconds.
Timeouts == {0, 50}
\* Command codes given to ctrl.
Commands == {BIO_CTRL_FLUSH - 1, BIO_CTRL_FLUSH, BIO_CTRL_FLUSH + 1}

\* strlen: the number of bytes before the first NUL.
RECURSIVE strlen_from(_, _)
strlen_from(str, i) ==
    IF i > Len(str) \/ str[i] = 0 THEN 0 ELSE 1 + strlen_from(str, i + 1)
strlen(str) == strlen_from(str, 1)

\* Conversion of an int to size_t (64 bit): the value is pow64 * 2^64 + low.
size_t(n) == [pow64 |-> IF n < 0 THEN 1 ELSE 0, low |-> n]

\* bio, tls and errno are the program's state; last records the callback just
\* made and created the handles create has been called on.
VARIABLES bio, tls, errno, last, created
vars == <<bio, tls, errno, last, created>>

\* Contents a handle may hold before create is called on it: the engine
\* allocates it and nothing in this file constrains what it holds.
PriorFlags == {NoFlags, RetryRead, RetryWrite, RetryRead \cup RetryWrite}
PriorNums == {1}

\* What a callback did: its name, its handle, the context it resolved from
\* b->ptr on entry (NULL when it resolved none), its return value, the
\* transport calls it made, in order, the command code (ctrl only), the
\* buffer and length it was given (recorded once it got past the binding
\* check) and the stores it made itself into the caller's buffer.
Returned(op, b, t, ret, calls) ==
    [op |-> op, b |-> b, tls |-> t, ret |-> ret, calls |-> calls, cmd |-> NULL,
     args |-> <<>>, stores |-> <<>>]
Entered(op, b, t, ret, calls, buf, len) ==
    [Returned(op, b, t, ret, calls) EXCEPT !.args = <<buf, len>>]

Init ==
    /\ bio \in [Handles -> [init : BOOLEAN, num : PriorNums, ptr : {NULL}, flags : PriorFlags]]
    /\ tls = [c \in Contexts |-> [bio |-> NULL, base_stream |-> c, timeout_msec |-> 0]]
    /\ errno = ErrnoClear
    /\ last = Returned("none", NULL, NULL, 0, <<>>)
    /\ created = {}

\* ---- the transport (mongoc_stream_read / mongoc_stream_writev) ----------
\* The record of one call: its arguments and the count it returned.
\* errno_at_call is what errno held when the call was entered and effect what
\* the call did to it.
stream_read_call(stream, buf, count, min_bytes, timeout_msec, result, errno_at_call, effect) ==
    [fn |-> "mongoc_stream_read", stream |-> stream, buf |-> buf, count |-> count,
     min_bytes |-> min_bytes, timeout_msec |-> timeout_msec, result |-> result,
     errno_at_call |-> errno_at_call, effect |-> effect]

stream_writev_call(stream, iov, iovcnt, timeout_msec, result, errno_at_call, effect) ==
    [fn |-> "mongoc_stream_writev", stream |-> stream, iov |-> iov, iovcnt |-> iovcnt,
     timeout_msec |-> timeout_msec, result |-> result,
     errno_at_call |-> errno_at_call, effect |-> effect]

\* ---- the BIO callbacks --------------------------------------------------
\* create without the reset of b->flags.
create_keeps_flags(b) ==
    /\ bio' = [bio EXCEPT ![b].init = TRUE, ![b].num = 0, ![b].ptr = NULL]
    /\ last' = Returned("create", b, NULL, 1, <<>>)
    /\ created' = created \cup {b}
    /\ UNCHANGED <<tls, errno>>

mongoc_stream_tls_openssl_bio_create(b) ==
    /\ bio' = [bio EXCEPT ![b] = [init |-> TRUE, num |-> 0, ptr |-> NULL, flags |-> NoFlags]]
    /\ last' = Returned("create", b, NULL, 1, <<>>)
    /\ created' = created \cup {b}
    /\ UNCHANGED <<tls, errno>>

\* destroy without the reset of the context's bio.
destroy_keeps_context_ref(b) ==
    LET t == bio[b].ptr
    IN IF t = NULL
       THEN /\ last' = Returned("destroy", b, t, -1, <<>>)
            /\ UNCHANGED <<bio, tls, errno, created>>
       ELSE /\ bio' = [bio EXCEPT ![b].ptr = NULL, ![b].init = FALSE, ![b].flags = NoFlags]
            /\ last' = Returned("destroy", b, t, 1, <<>>)
            /\ UNCHANGED <<tls, errno, created>>

\* destroy that resets the handle before it tests b->ptr.
destroy_resets_first(b) ==
    LET t == bio[b].ptr
    IN /\ bio' = [bio EXCEPT ![b].ptr = NULL, ![b].init = FALSE, ![b].flags = NoFlags]
       /\ IF t = NULL
          THEN /\ last' = Returned("destroy", b, t, -1, <<>>)
               /\ UNCHANGED <<tls, errno, created>>
          ELSE /\ tls' = [tls EXCEPT ![t].bio = NULL]
               /\ last' = Returned("destroy", b, t, 1, <<>>)
               /\ UNCHANGED <<errno, created>>

\* destroy that leaves the handle's flags as they are.
destroy_keeps_flags(b) ==
    LET t == bio[b].ptr
    IN IF t = NULL
       THEN /\ last' = Returned("destroy", b, t, -1, <<>>)
            /\ UNCHANGED <<bio, tls, errno, created>>
       ELSE /\ bio' = [bio EXCEPT ![b].ptr = NULL, ![b].init = FALSE]
            /\ tls' = [tls EXCEPT ![t].bio = NULL]
            /\ last' = Returned("destroy", b, t, 1, <<>>)
            /\ UNCHANGED <<errno, created>>

\* destroy that reports success on an unbound handle too.
destroy_always_succeeds(b) ==
    LET t == bio[b].ptr
    IN IF t = NULL
       THEN /\ last' = Returned("destroy", b, t, 1, <<>>)
            /\ UNCHANGED <<bio, tls, errno, created>>
       ELSE /\ bio' = [bio EXCEPT ![b].ptr = NULL, ![b].init = FALSE, ![b].flags = NoFlags]
            /\ tls' = [tls EXCEPT ![t].bio = NULL]
            /\ last' = Returned("destroy", b, t, 1, <<>>)
            /\ UNCHANGED <<errno, created>>

mongoc_stream_tls_openssl_bio_destroy(b) ==
    LET t == bio[b].ptr
    IN IF t = NULL
       THEN /\ last' = Returned("destroy", b, t, -1, <<>>)
            /\ UNCHANGED <<bio, tls, errno, created>>
       ELSE /\ bio' = [bio EXCEPT ![b].ptr = NULL, ![b].init = FALSE, ![b].flags = NoFlags]
            /\ tls' = [tls EXCEPT ![t].bio = NULL]
            /\ last' = Returned("destroy", b, t, 1, <<>>)
            /\ UNCHANGED <<errno, created>>

\* read that clears the retry flags before it tests b->ptr.
read_clears_flags_first(b, buf, len) ==
    LET t == bio[b].ptr
    IN IF t = NULL
       THEN /\ bio' = [bio EXCEPT ![b].flags = BIO_clear_retry_flags(bio[b].flags)]
            /\ last' = Returned("read", b, t, -1, <<>>)
            /\ UNCHANGED <<tls, errno, created>>
       ELSE \E c \in Counts, e \in TransportErrs :
            LET call == stream_read_call(tls[t].base_stream, buf, size_t(len), size_t(0),
                                         tls[t].timeout_msec, c, ErrnoClear, e)
                after == ErrnoAfter(ErrnoClear, e)
                flags0 == BIO_clear_retry_flags(bio[b].flags)
                flags1 == IF c <= 0 /\ MONGOC_ERRNO_IS_AGAIN(after)
                          THEN BIO_set_retry_read(flags0)
                          ELSE flags0
            IN /\ errno' = after
               /\ bio' = [bio EXCEPT ![b].flags = flags1]
               /\ last' = Entered("read", b, t, c, <<call>>, buf, len)
               /\ UNCHANGED <<tls, created>>

\* read without BIO_clear_retry_flags.
read_keeps_flags(b, buf, len) ==
    LET t == bio[b].ptr
    IN IF t = NULL
       THEN /\ last' = Returned("read", b, t, -1, <<>>)
            /\ UNCHANGED <<bio, tls, errno, created>>
       ELSE \E c \in Counts, e \in TransportErrs :
            LET call == stream_read_call(tls[t].base_stream, buf, size_t(len), size_t(0),
                                         tls[t].timeout_msec, c, ErrnoClear, e)
                after == ErrnoAfter(ErrnoClear, e)
                flags0 == bio[b].flags
                flags1 == IF c <= 0 /\ MONGOC_ERRNO_IS_AGAIN(after)
                          THEN BIO_set_retry_read(flags0)
                          ELSE flags0
            IN /\ errno' = after
               /\ bio' = [bio EXCEPT ![b].flags = flags1]
               /\ last' = Entered("read", b, t, c, <<call>>, buf, len)
               /\ UNCHANGED <<tls, created>>

\* read that calls the transport a second time after a transient result.
read_retries_once(b, buf, len) ==
    LET t == bio[b].ptr
    IN IF t = NULL
       THEN /\ last' = Returned("read", b, t, -1, <<>>)
            /\ UNCHANGED <<bio, tls, errno, created>>
       ELSE \E c1 \in Counts, e1 \in TransportErrs, c \in Counts, e \in TransportErrs :
            LET first == stream_read_call(tls[t].base_stream, buf, size_t(len), size_t(0),
                                          tls[t].timeout_msec, c1, ErrnoClear, e1)
                again == c1 <= 0 /\ MONGOC_ERRNO_IS_AGAIN(ErrnoAfter(ErrnoClear, e1))
                call == stream_read_call(tls[t].base_stream, buf, size_t(len), size_t(0),
                                         tls[t].timeout_msec, c, ErrnoClear, e)
                after == ErrnoAfter(ErrnoClear, e)
                flags0 == BIO_clear_retry_flags(bio[b].flags)
                flags1 == IF c <= 0 /\ MONGOC_ERRNO_IS_AGAIN(after)
                          THEN BIO_set_retry_read(flags0)
                          ELSE flags0
            IN /\ errno' = after
               /\ bio' = [bio EXCEPT ![b].flags = flags1]
               /\ last' = Entered("read", b, t, c, IF again THEN <<first, call>> ELSE <<call>>, buf, len)
               /\ UNCHANGED <<tls, created>>

\* read without the errno = 0 in front of the transport call.
read_skips_errno_reset(b, buf, len) ==
    LET t == bio[b].ptr
    IN IF t = NULL
       THEN /\ last' = Returned("read", b, t, -1, <<>>)
            /\ UNCHANGED <<bio, tls, errno, created>>
       ELSE \E c \in Counts, e \in TransportErrs :
            LET call == stream_read_call(tls[t].base_stream, buf, size_t(len), size_t(0),
                                         tls[t].timeout_msec, c, errno, e)
                after == ErrnoAfter(errno, e)
                flags0 == BIO_clear_retry_flags(bio[b].flags)
                flags1 == IF c <= 0 /\ MONGOC_ERRNO_IS_AGAIN(after)
                          THEN BIO_set_retry_read(flags0)
                          ELSE flags0
            IN /\ errno' = after
               /\ bio' = [bio EXCEPT ![b].flags = flags1]
               /\ last' = Entered("read", b, t, c, <<call>>, buf, len)
               /\ UNCHANGED <<tls, created>>

\* read that always passes the timeout the context was set up with.
read_initial_timeout(b, buf, len) ==
    LET t == bio[b].ptr
    IN IF t = NULL
       THEN /\ last' = Returned("read", b, t, -1, <<>>)
            /\ UNCHANGED <<bio, tls, errno, created>>
       ELSE \E c \in Counts, e \in TransportErrs :
            LET call == stream_read_call(tls[t].base_stream, buf, size_t(len), size_t(0),
                                         0, c, ErrnoClear, e)
                after == ErrnoAfter(ErrnoClear, e)
                flags0 == BIO_clear_retry_flags(bio[b].flags)
                flags1 == IF c <= 0 /\ MONGOC_ERRNO_IS_AGAIN(after)
                          THEN BIO_set_retry_read(flags0)
                          ELSE flags0
            IN /\ errno' = after
               /\ bio' = [bio EXCEPT ![b].flags = flags1]
               /\ last' = Entered("read", b, t, c, <<call>>, buf, len)
               /\ UNCHANGED <<tls, created>>

\* read that gives the binding up after a failure that is not transient.
read_unbinds_on_failure(b, buf, len) ==
    LET t == bio[b].ptr
    IN IF t = NULL
       THEN /\ last' = Returned("read", b, t, -1, <<>>)
            /\ UNCHANGED <<bio, tls, errno, created>>
       ELSE \E c \in Counts, e \in TransportErrs :
            LET call == stream_read_call(tls[t].base_stream, buf, size_t(len), size_t(0),
                                         tls[t].timeout_msec, c, ErrnoClear, e)
                after == ErrnoAfter(ErrnoClear, e)
                flags0 == BIO_clear_retry_flags(bio[b].flags)
                flags1 == IF c <= 0 /\ MONGOC_ERRNO_IS_AGAIN(after)
                          THEN BIO_set_retry_read(flags0)
                          ELSE flags0
                fatal == c < 0 /\ ~MONGOC_ERRNO_IS_AGAIN(after)
            IN /\ errno' = after
               /\ bio' = [bio EXCEPT ![b].flags = flags1,
                                     ![b].ptr = IF fatal THEN NULL ELSE t]
               /\ tls' = [tls EXCEPT ![t].bio = IF fatal THEN NULL ELSE b]
               /\ last' = Entered("read", b, t, c, <<call>>, buf, len)
               /\ UNCHANGED created

\* The transport call returns some count c and does e to errno.
mongoc_stream_tls_openssl_bio_read(b, buf, len) ==
    LET t == bio[b].ptr
    IN IF t = NULL
       THEN /\ last' = Returned("read", b, t, -1, <<>>)
            /\ UNCHANGED <<bio, tls, errno, created>>
       ELSE \E c \in Counts, e \in TransportErrs :
            LET cleared == ErrnoClear
                call == stream_read_call(tls[t].base_stream, buf, size_t(len), size_t(0),
                                         tls[t].timeout_msec, c, cleared, e)
                ret == c
                after == ErrnoAfter(cleared, e)
                flags0 == BIO_clear_retry_flags(bio[b].flags)
                flags1 == IF ret <= 0 /\ MONGOC_ERRNO_IS_AGAIN(after)
                          THEN BIO_set_retry_read(flags0)
                          ELSE flags0
            IN /\ errno' = after
               /\ bio' = [bio EXCEPT ![b].flags = flags1]
               /\ last' = Entered("read", b, t, ret, <<call>>, buf, len)
               /\ UNCHANGED <<tls, created>>

\* write that also asks for a retry after a short write.
write_retries_short(op, b, buf, len) ==
    LET t == bio[b].ptr
    IN IF t = NULL
       THEN /\ last' = Returned(op, b, t, -1, <<>>)
            /\ UNCHANGED <<bio, tls, errno, created>>
       ELSE \E c \in Counts, e \in TransportErrs :
            LET iov == [iov_base |-> buf, iov_len |-> size_t(len)]
                call == stream_writev_call(tls[t].base_stream, <<iov>>, 1,
                                           tls[t].timeout_msec, c, ErrnoClear, e)
                after == ErrnoAfter(ErrnoClear, e)
                flags0 == BIO_clear_retry_flags(bio[b].flags)
                flags1 == IF len > c /\ MONGOC_ERRNO_IS_AGAIN(after)
                          THEN BIO_set_retry_write(flags0)
                          ELSE flags0
            IN /\ errno' = after
               /\ bio' = [bio EXCEPT ![b].flags = flags1]
               /\ last' = Entered(op, b, t, c, <<call>>, buf, len)
               /\ UNCHANGED <<tls, created>>

\* write that asks for a read retry where it should ask for a write retry.
write_sets_retry_read(op, b, buf, len) ==
    LET t == bio[b].ptr
    IN IF t = NULL
       THEN /\ last' = Returned(op, b, t, -1, <<>>)
            /\ UNCHANGED <<bio, tls, errno, created>>
       ELSE \E c \in Counts, e \in TransportErrs :
            LET iov == [iov_base |-> buf, iov_len |-> size_t(len)]
                call == stream_writev_call(tls[t].base_stream, <<iov>>, 1,
                                           tls[t].timeout_msec, c, ErrnoClear, e)
                after == ErrnoAfter(ErrnoClear, e)
                flags0 == BIO_clear_retry_flags(bio[b].flags)
                flags1 == IF c <= 0 /\ MONGOC_ERRNO_IS_AGAIN(after)
                          THEN BIO_set_retry_read(flags0)
                          ELSE flags0
            IN /\ errno' = after
               /\ bio' = [bio EXCEPT ![b].flags = flags1]
               /\ last' = Entered(op, b, t, c, <<call>>, buf, len)
               /\ UNCHANGED <<tls, created>>

\* write without BIO_clear_retry_flags.
write_keeps_flags(op, b, buf, len) ==
    LET t == bio[b].ptr
    IN IF t = NULL
       THEN /\ last' = Returned(op, b, t, -1, <<>>)
            /\ UNCHANGED <<bio, tls, errno, created>>
       ELSE \E c \in Counts, e \in TransportErrs :
            LET iov == [iov_base |-> buf, iov_len |-> size_t(len)]
                call == stream_writev_call(tls[t].base_stream, <<iov>>, 1,
                                           tls[t].timeout_msec, c, ErrnoClear, e)
                after == ErrnoAfter(ErrnoClear, e)
                flags0 == bio[b].flags
                flags1 == IF c <= 0 /\ MONGOC_ERRNO_IS_AGAIN(after)
                          THEN BIO_set_retry_write(flags0)
                          ELSE flags0
            IN /\ errno' = after
               /\ bio' = [bio EXCEPT ![b].flags = flags1]
               /\ last' = Entered(op, b, t, c, <<call>>, buf, len)
               /\ UNCHANGED <<tls, created>>

\* The body of write, shared with puts, which calls it: op is the name of
\* the callback the engine entered.
bio_write_as(op, b, buf, len) ==
    LET t == bio[b].ptr
    IN IF t = NULL
       THEN /\ last' = Returned(op, b, t, -1, <<>>)
            /\ UNCHANGED <<bio, tls, errno, created>>
       ELSE \E c \in Counts, e \in TransportErrs :
            LET iov == [iov_base |-> buf, iov_len |-> size_t(len)]
                cleared == ErrnoClear
                call == stream_writev_call(tls[t].base_stream, <<iov>>, 1,
                                           tls[t].timeout_msec, c, cleared, e)
                ret == c
                after == ErrnoAfter(cleared, e)
                flags0 == BIO_clear_retry_flags(bio[b].flags)
                flags1 == IF ret <= 0 /\ MONGOC_ERRNO_IS_AGAIN(after)
                          THEN BIO_set_retry_write(flags0)
                          ELSE flags0
            IN /\ errno' = after
               /\ bio' = [bio EXCEPT ![b].flags = flags1]
               /\ last' = Entered(op, b, t, ret, <<call>>, buf, len)
               /\ UNCHANGED <<tls, created>>

mongoc_stream_tls_openssl_bio_write(b, buf, len) ==
    bio_write_as("write", b, buf, len)

\* ctrl whose flush also drops the handle's retry flags.
ctrl_flush_clears_retry(b, cmd) ==
    /\ last' = [Returned("ctrl", b, NULL, IF cmd = BIO_CTRL_FLUSH THEN 1 ELSE 0, <<>>)
                  EXCEPT !.cmd = cmd]
    /\ bio' = IF cmd = BIO_CTRL_FLUSH
              THEN [bio EXCEPT ![b].flags = BIO_clear_retry_flags(bio[b].flags)]
              ELSE bio
    /\ UNCHANGED <<tls, errno, created>>

mongoc_stream_tls_openssl_bio_ctrl(b, cmd) ==
    /\ last' = [Returned("ctrl", b, NULL, IF cmd = BIO_CTRL_FLUSH THEN 1 ELSE 0, <<>>)
                  EXCEPT !.cmd = cmd]
    /\ UNCHANGED <<bio, tls, errno, created>>

\* gets that hands back an empty string by storing a terminator at buf[0].
gets_terminates_buffer(b, buf, len) ==
    /\ last' = [Returned("gets", b, NULL, -1, <<>>)
                  EXCEPT !.stores = <<[buf |-> buf, at |-> 0, byte |-> 0]>>]
    /\ UNCHANGED <<bio, tls, errno, created>>

mongoc_stream_tls_openssl_bio_gets(b, buf, len) ==
    /\ last' = Returned("gets", b, NULL, -1, <<>>)
    /\ UNCHANGED <<bio, tls, errno, created>>

\* puts that counts the terminator into the length.
puts_counts_terminator(b, str) ==
    bio_write_as("puts", b, str, strlen(str) + 1)

mongoc_stream_tls_openssl_bio_puts(b, str) ==
    bio_write_as("puts", b, str, strlen(str))

\* ---- the owning stream (outside this file) ------------------------------
\* Stream setup binds a handle the engine has created (and not destroyed
\* since), still unbound, to a context that holds none; it sets the two
\* references and nothing else.
Bind(b, t) ==
    /\ b \in created
    /\ bio[b].init
    /\ bio[b].ptr = NULL
    /\ tls[t].bio = NULL
    /\ bio' = [bio EXCEPT ![b].ptr = t]
    /\ tls' = [tls EXCEPT ![t].bio = b]
    /\ last' = Returned("bind", b, t, 0, <<>>)
    /\ UNCHANGED <<errno, created>>

\* The owner stores a new per-operation timeout in the context.
SetTimeout(t, ms) ==
    /\ tls[t].timeout_msec # ms
    /\ tls' = [tls EXCEPT ![t].timeout_msec = ms]
    /\ last' = Returned("set_timeout", NULL, t, 0, <<>>)
    /\ UNCHANGED <<bio, errno, created>>

Next ==
    \/ \E b \in Handles : mongoc_stream_tls_openssl_bio_create(b)
    \/ \E b \in Handles : mongoc_stream_tls_openssl_bio_destroy(b)
    \/ \E b \in Handles, buf \in Strings : \E len \in ReadLens(buf) :
          mongoc_stream_tls_openssl_bio_read(b, buf, len)
    \/ \E b \in Handles, buf \in Strings : \E len \in Lens(buf) :
          mongoc_stream_tls_openssl_bio_write(b, buf, len)
    \/ \E b \in Handles, cmd \in Commands : mongoc_stream_tls_openssl_bio_ctrl(b, cmd)
    \/ \E b \in Handles, buf \in Strings : \E len \in ReadLens(buf) :
          mongoc_stream_tls_openssl_bio_gets(b, buf, len)
    \/ \E b \in Handles, str \in Strings : mongoc_stream_tls_openssl_bio_puts(b, str)
    \/ \E b \in Handles, t \in Contexts : Bind(b, t)
    \/ \E t \in Contexts, ms \in Timeouts : SetTimeout(t, ms)

Spec == Init /\ [][Next]_vars

\* A transport call that could not complete before its deadline: the
\* transport waits out a would-block condition until the deadline passes and
\* then gives up with no byte moved and the would-block code left in errno.
TimedOut(call) == call.result <= 0 /\ call.effect = "EAGAIN"

\* ---- properties ---------------------------------------------------------

\* C1: whenever a context references a handle, that handle's ptr points back
\* to the same context, in every state reached by any sequence of callbacks
\* and binds, also after create on a bound handle.
C1_ContextRefPointsBack ==
    \A t \in Contexts : tls[t].bio # NULL => bio[tls[t].bio].ptr = t

\* C2: destroy on a bound handle returns 1 and leaves the handle with
\* ptr = NULL, init = 0, flags = 0 and the context it resolved with no bio.
C2_DestroyBoundClearsBoth ==
    (last.op = "destroy" /\ last.tls # NULL) =>
        /\ last.ret = 1
        /\ bio[last.b].ptr = NULL
        /\ bio[last.b].init = FALSE
        /\ bio[last.b].flags = NoFlags
        /\ tls[last.tls].bio = NULL

C2_Witness == last.op = "destroy" /\ last.tls # NULL /\ last.ret = 1

\* C3: a destroy step taken from a state where the handle's ptr is NULL
\* returns -1 and changes no handle, no context and not errno.
C3_DestroyUnboundMutatesNothing ==
    [][(last'.op = "destroy" /\ bio[last'.b].ptr = NULL) =>
          (last'.ret = -1 /\ bio' = bio /\ tls' = tls /\ errno' = errno)]_vars

C3_Witness ==
    /\ last.op = "destroy" /\ last.ret = -1
    /\ bio[last.b].flags # NoFlags /\ bio[last.b].init

\* C4: create returns 1 and leaves the handle with ptr = NULL, init = 1 and
\* flags = 0, whatever the handle held before.
C4_CreateResets ==
    last.op = "create" =>
        /\ last.ret = 1
        /\ bio[last.b].ptr = NULL
        /\ bio[last.b].init = TRUE
        /\ bio[last.b].flags = NoFlags

\* create has run on a handle that was bound: the context still names it.
C4_Witness ==
    /\ last.op = "create"
    /\ \E t \in Contexts : tls[t].bio = last.b

\* C5: a read or write step taken from a state where the handle's ptr is
\* NULL returns -1, leaves the handle's flags as they were, makes no
\* transport call and leaves errno as it was.
C5_UnboundReadWriteFail ==
    [][(last'.op \in {"read", "write"} /\ bio[last'.b].ptr = NULL) =>
          /\ last'.ret = -1
          /\ bio'[last'.b].flags = bio[last'.b].flags
          /\ last'.calls = <<>>
          /\ errno' = errno]_vars

\* read has failed on an unbound handle that holds a retry flag.
C5_Witness ==
    /\ last.op = "read" /\ last.tls = NULL /\ last.ret = -1
    /\ BIO_FLAGS_SHOULD_RETRY \in bio[last.b].flags

\* C6: after a read on a bound handle the return value is the count the
\* transport returned, and the flags are retry-read when that count is <= 0
\* and errno is transient, and empty otherwise.
C6_ReadResult ==
    (last.op = "read" /\ last.tls # NULL /\ last.calls # <<>>) =>
        /\ last.ret = last.calls[1].result
        /\ bio[last.b].flags =
             IF last.calls[1].result <= 0 /\ MONGOC_ERRNO_IS_AGAIN(errno)
             THEN RetryRead
             ELSE NoFlags

\* A read whose transport call failed with a transient errno.
C6_Witness ==
    /\ last.op = "read" /\ last.tls # NULL
    /\ last.ret <= 0 /\ MONGOC_ERRNO_IS_AGAIN(errno)
    /\ bio[last.b].flags = RetryRead

\* C7: after a write on a bound handle the return value is the count the
\* transport returned, and the flags are retry-write when that count is <= 0
\* and errno is transient, and empty otherwise: a short write sets none.
C7_WriteResult ==
    (last.op = "write" /\ last.tls # NULL /\ last.calls # <<>>) =>
        /\ last.ret = last.calls[1].result
        /\ bio[last.b].flags =
             IF last.calls[1].result <= 0 /\ MONGOC_ERRNO_IS_AGAIN(errno)
             THEN RetryWrite
             ELSE NoFlags

\* A short write with errno left transient.
C7_Witness ==
    /\ last.op = "write" /\ last.tls # NULL
    /\ last.ret > 0
    /\ last.calls[1].iov[1].iov_len.pow64 = 0
    /\ last.ret < last.calls[1].iov[1].iov_len.low
    /\ MONGOC_ERRNO_IS_AGAIN(errno)
    /\ bio[last.b].flags = NoFlags

\* C8: read, write and puts on a bound handle call the transport exactly
\* once; create, destroy, ctrl and gets never call it.
C8_OneTransportCall ==
    /\ (last.op \in {"read", "write", "puts"} /\ last.tls # NULL) => Len(last.calls) = 1
    /\ last.op \in {"create", "destroy", "ctrl", "gets"} => Len(last.calls) = 0

\* A read that got a transient result and returned after its one call.
C8_Witness ==
    /\ last.op = "read" /\ last.tls # NULL
    /\ last.ret <= 0 /\ MONGOC_ERRNO_IS_AGAIN(errno)
    /\ Len(last.calls) = 1

\* C9: every puts(b, str) step is the step write(b, str, n) takes from the
\* same state, n being the length of str without its terminator: the same
\* transport call or none, the same return value, the same flags.
C9_PutsIsWrite ==
    [][last'.op = "puts" =>
          \A b \in Handles, str \in Strings :
              mongoc_stream_tls_openssl_bio_puts(b, str) =>
                  bio_write_as("puts", b, str, Len(str) - 1)]_vars

\* puts of a non-empty string on a bound handle.
C9_Witness ==
    /\ last.op = "puts" /\ last.tls # NULL
    /\ Len(last.calls) = 1
    /\ last.calls[1].iov[1].iov_len = size_t(MaxStr)
    /\ Len(last.calls[1].iov[1].iov_base) = MaxStr + 1

\* C10: a ctrl step returns 1 for the flush command and 0 for any other,
\* and changes no handle, no context and not errno, without a transport call.
C10_CtrlPure ==
    [][last'.op = "ctrl" =>
          /\ last'.ret = (IF last'.cmd = BIO_CTRL_FLUSH THEN 1 ELSE 0)
          /\ bio' = bio /\ tls' = tls /\ errno' = errno
          /\ last'.calls = <<>>]_vars

\* flush on a bound handle that holds a retry flag.
C10_Witness ==
    /\ last.op = "ctrl" /\ last.cmd = BIO_CTRL_FLUSH /\ last.ret = 1
    /\ bio[last.b].ptr # NULL
    /\ bio[last.b].flags # NoFlags

\* C11: gets returns -1 for every handle state, buffer and length, and does
\* so without changing the handle (flags, binding), any context or errno,
\* without storing into the buffer and without calling the transport.
C11_GetsAlwaysFails ==
    [][last'.op = "gets" =>
          /\ last'.ret = -1
          /\ last'.calls = <<>>
          /\ last'.stores = <<>>
          /\ bio' = bio /\ tls' = tls /\ errno' = errno]_vars

\* gets has just failed on a bound handle that still holds a retry flag.
C11_Witness ==
    /\ last.op = "gets" /\ last.ret = -1
    /\ bio[last.b].ptr # NULL
    /\ bio[last.b].flags # NoFlags

\* C12: a handle's ptr is NULL unless the handle is bound to exactly one
\* context: when ptr is a context, that context's bio is this handle and no
\* other context's bio is.
C12_BoundToExactlyOne ==
    \A b \in Handles :
        bio[b].ptr # NULL =>
            /\ tls[bio[b].ptr].bio = b
            /\ \A t \in Contexts \ {bio[b].ptr} : tls[t].bio # b

C14_RetryFlagsExclusive ==
    \A b \in created :
        /\ ~(BIO_FLAGS_READ \in bio[b].flags /\ BIO_FLAGS_WRITE \in bio[b].flags)
        /\ bio[b].flags \in {NoFlags, RetryRead, RetryWrite}

\* A read on a created, bound handle has just left retry-read alone set.
C14_Witness ==
    /\ last.op = "read" /\ last.calls # <<>>
    /\ last.b \in created
    /\ bio[last.b].flags = RetryRead

\* C15: read and write set errno to 0 before they call the transport: when
\* errno held a transient code before the callback and the transport returns
\* a count <= 0 without storing into errno, the transport was entered with
\* errno 0, errno is 0 afterwards and no retry flag is set.
C15_ErrnoClearedBeforeTransport ==
    [][(/\ last'.op \in {"read", "write"} /\ last'.calls # <<>>
        /\ MONGOC_ERRNO_IS_AGAIN(errno)
        /\ last'.calls[1].result <= 0
        /\ last'.calls[1].effect = "untouched") =>
          /\ last'.calls[1].errno_at_call = ErrnoClear
          /\ errno' = ErrnoClear
          /\ bio'[last'.b].flags \cap RetryBits = {}]_vars

\* A read has just returned a count <= 0 from a transport call that left
\* errno alone, and the handle holds no retry flag.
C15_Witness ==
    /\ last.op = "read" /\ last.calls # <<>>
    /\ last.calls[1].result <= 0
    /\ last.calls[1].effect = "untouched"
    /\ last.calls[1].errno_at_call = ErrnoClear
    /\ errno = ErrnoClear
    /\ bio[last.b].flags = NoFlags

\* C16: every transport call is made on the base stream and with the timeout
\* that the bound context holds at the time of the call; read passes the
\* caller's buffer and length and min_bytes 0, write passes one segment.
C16_TransportArguments ==
    (last.op \in {"read", "write", "puts"} /\ last.calls # <<>>) =>
        LET call == last.calls[1]
            t == bio[last.b].ptr
        IN /\ t = last.tls
           /\ call.stream = tls[t].base_stream
           /\ call.timeout_msec = tls[t].timeout_msec
           /\ last.op = "read" =>
                 /\ call.fn = "mongoc_stream_read"
                 /\ call.buf = last.args[1]
                 /\ call.count.pow64 = 0 /\ call.count.low = last.args[2]
                 /\ call.min_bytes = size_t(0)
           /\ last.op # "read" =>
                 /\ call.fn = "mongoc_stream_writev"
                 /\ call.iovcnt = 1 /\ Len(call.iov) = 1

\* A read has just been made with the 50 ms timeout the owner stored after
\* stream setup (contexts start at 0).
C16_Witness ==
    /\ last.op = "read" /\ last.calls # <<>>
    /\ tls[last.tls].timeout_msec = 50
    /\ last.calls[1].timeout_msec = 50
    /\ last.calls[1].stream = tls[last.tls].base_stream

\* C17: for every len write is given, negative ones included, the single
\* segment handed to the transport has the caller's buffer as base and a
\* length numerically equal to len.
C17_SegmentLengthEqualsLen ==
    (last.op = "write" /\ last.calls # <<>>) =>
        LET iov == last.calls[1].iov[1]
        IN /\ iov.iov_base = last.args[1]
           /\ iov.iov_len.pow64 = 0
           /\ iov.iov_len.low = last.args[2]

\* C18: a handle on which create has been called holds no flag while its ptr
\* is NULL, so a read or write that fails on the unbound path leaves no
\* retry flag behind.
C18_UnboundHasNoFlags ==
    \A b \in created : bio[b].ptr = NULL => bio[b].flags = NoFlags

\* A read or write has just failed on the unbound path of a handle that was
\* created and has been destroyed since.
C18_Witness ==
    /\ last.op \in {"read", "write"} /\ last.ret = -1 /\ last.calls = <<>>
    /\ last.b \in created
    /\ ~bio[last.b].init
    /\ bio[last.b].ptr = NULL
    /\ bio[last.b].flags = NoFlags

\* C19: read, write, puts, ctrl and gets leave the binding alone: every
\* handle's ptr and init and every context's bio, timeout and base stream
\* are the same after the callback as before.
C19_IoKeepsBinding ==
    [][last'.op \in {"read", "write", "puts", "ctrl", "gets"} =>
          /\ tls' = tls
          /\ \A b \in Handles : /\ bio'[b].ptr = bio[b].ptr
                                 /\ bio'[b].init = bio[b].init]_vars

\* A write has just failed for good and handle and context still reference
\* each other.
C19_Witness ==
    /\ last.op = "write" /\ last.calls # <<>> /\ last.ret = -1
    /\ bio[last.b].flags = NoFlags
    /\ bio[last.b].ptr = last.tls
    /\ tls[last.tls].bio = last.b

\* C20: destroy succeeds at most once per binding: it returns 1 only on a
\* bound handle and leaves it unbound, only a bind makes an unbound handle
\* bound again, and destroy on an unbound handle (so every destroy after a
\* successful one with no bind in between) returns -1 and changes nothing.
C20_DestroyOncePerBinding ==
    [][\A b \in Handles :
          /\ (last'.op = "destroy" /\ last'.b = b /\ last'.ret = 1) =>
                (bio[b].ptr # NULL /\ bio'[b].ptr = NULL)
          /\ (bio[b].ptr = NULL /\ bio'[b].ptr # NULL) => last'.op = "bind"
          /\ (last'.op = "destroy" /\ last'.b = b /\ bio[b].ptr = NULL) =>
                (last'.ret = -1 /\ bio' = bio /\ tls' = tls /\ errno' = errno)
          /\ (last.op = "destroy" /\ last.ret = 1 /\ last.b = b
                 /\ last'.op = "destroy" /\ last'.b = b) =>
                (last'.ret = -1 /\ bio' = bio /\ tls' = tls /\ errno' = errno)]_vars

\* destroy has just failed on a created handle that an earlier destroy left
\* unbound and uninitialized.
C20_Witness ==
    /\ last.op = "destroy" /\ last.ret = -1
    /\ last.b \in created
    /\ ~bio[last.b].init
    /\ bio[last.b].ptr = NULL

====
